---- MODULE Spec2Model ----
(***************************************************************************)
(* SudokuSensei: the candidate-tracking board (board/board.py,             *)
(* board/cell.py), the five deduction techniques (logic/*.py) and the two  *)
(* solving orchestrators (services/frontend_solver.py,                     *)
(* services/step_by_step_solver.py), as state machines over one board.     *)
(***************************************************************************)
EXTENDS Integers, Sequences, FiniteSets, TLC

VARIABLES
    puzzle,             \* the 9x9 grid handed to SudokuBoard(...) / solve(...)
    board,              \* SudokuBoard.grid: [Pos -> Cell]
    refreshed,          \* update_candidates() has run on this board at least once
    ret,                \* (changed, step) returned by the last board/technique call
    solver,             \* which orchestrator runs: "frontend" | "stepbystep" | "none"
    MAX_ITERATIONS,     \* self.MAX_ITERATIONS of the solver instance
    pc,                 \* position inside solve
    changed,            \* solve's local `changed`
    iteration,          \* solve's local `iteration`
    ti,                 \* index into self.techniques of the technique being run
    all_changed,        \* apply_all_*'s local `changed`
    before,             \* before_grid / before_candidates snapshot
    techniques_applied, \* solve's local list
    solving_steps,      \* solve's local list (step_type, technique)
    progress,           \* techniques whose apply_one_* returned True during this solve
    calls,              \* apply_one_* calls of the current iteration: (name, returned flag)
    saw_empty,          \* some unsolved cell had no candidate at some point of this solve
    result,             \* the dict returned by solve (pc = "done")
    returned            \* what the caller got from the solve calls made so far

vars == <<puzzle, board, refreshed, ret, solver, MAX_ITERATIONS, pc, changed,
          iteration, ti, all_changed, before, techniques_applied,
          solving_steps, progress, calls, saw_empty, result, returned>>

solveVars == <<solver, MAX_ITERATIONS, pc, changed, iteration, ti, all_changed,
               before, techniques_applied, solving_steps, progress, calls,
               saw_empty, result>>

-----------------------------------------------------------------------------
(* board/cell.py *)

Digits == 1..9
Idx == 1..9
Pos == (0..8) \X (0..8)

Cell(val, is_initial) ==
    [value |-> val, is_initial |-> is_initial,
     candidates |-> IF val = 0 THEN Digits ELSE {}]

Cell_is_solved(cell) == cell.value # 0

set_value(cell, new_value) ==
    [cell EXCEPT !.value = new_value,
                 !.candidates = IF new_value # 0 THEN {} ELSE @]

set_candidates(cell, new_candidates) ==
    [cell EXCEPT !.candidates = new_candidates]

-----------------------------------------------------------------------------
(* board/board.py *)

SudokuBoard(g) ==
    [p \in Pos |-> Cell(g[p[1] + 1][p[2] + 1], g[p[1] + 1][p[2] + 1] # 0)]

get_row(r) == [i \in Idx |-> <<r, i - 1>>]

\* get_col returning the cells of the row with that index
get_col_transposed(c) == [i \in Idx |-> <<c, i - 1>>]

get_col(c) == [i \in Idx |-> <<i - 1, c>>]

get_box(r, c) ==
    [i \in Idx |-> <<3 * (r \div 3) + ((i - 1) \div 3),
                     3 * (c \div 3) + ((i - 1) % 3)>>]

Range(s) == {s[i] : i \in DOMAIN s}

\* used_values without the box term
used_values_no_box(b, r, c) ==
    {b[q].value : q \in {q \in Range(get_row(r)) \cup Range(get_col(c)) :
                            Cell_is_solved(b[q])}}

\* used_values of update_candidates_for_cells: values of the solved cells of
\* the row, the column and the box of (r, c)
used_values(b, r, c) ==
    {b[q].value : q \in {q \in Range(get_row(r)) \cup Range(get_col(c))
                                \cup Range(get_box(r, c)) :
                            Cell_is_solved(b[q])}}

\* update_candidates_for_cells rebuilding each candidate set from 1..9
update_candidates_for_cells_rebuild(b, positions) ==
    LET new == [p \in Pos |->
                  IF p \in positions /\ ~Cell_is_solved(b[p])
                  THEN set_candidates(b[p], Digits \ used_values(b, p[1], p[2]))
                  ELSE b[p]]
    IN  IF new # b THEN new ELSE b

update_candidates_for_cells(b, positions) ==
    LET new == [p \in Pos |->
                  IF p \in positions /\ ~Cell_is_solved(b[p])
                  THEN set_candidates(b[p], b[p].candidates
                                              \ used_values(b, p[1], p[2]))
                  ELSE b[p]]
    IN  IF new # b THEN new ELSE b

\* the `changes` list returned by update_candidates_for_cells, as the set of
\* its "position" entries
constraint_changes(b, positions) ==
    {p \in positions : ~Cell_is_solved(b[p])
                       /\ b[p].candidates \cap used_values(b, p[1], p[2]) # {}}

\* update_candidates stopping after the first cell it changed
update_candidates_first_change(b) ==
    LET stale == constraint_changes(b, Pos)
    IN  IF stale = {} THEN b
        ELSE update_candidates_for_cells(b,
                {CHOOSE p \in stale :
                    \A q \in stale : 9 * p[1] + p[2] <= 9 * q[1] + q[2]})

update_candidates(b) == update_candidates_for_cells(b, Pos)

\* peers without the cells of the box that are in another row and column
peers_no_box(r, c) ==
    (Range(get_row(r)) \cup Range(get_col(c))) \ {<<r, c>>}

peers(r, c) ==
    (Range(get_row(r)) \cup Range(get_col(c)) \cup Range(get_box(r, c)))
        \ {<<r, c>>}

update_peers_candidates(b, r, c, value) ==
    LET new == [p \in Pos |->
                  IF p \in peers(r, c) /\ ~Cell_is_solved(b[p])
                  THEN set_candidates(b[p], b[p].candidates \ {value})
                  ELSE b[p]]
    IN  IF new # b THEN new ELSE b

get_candidates_grid(b) == [p \in Pos |-> b[p].candidates]

\* get_values_grid returning the given values only
get_values_grid_initial(b) ==
    [p \in Pos |-> IF b[p].is_initial THEN b[p].value ELSE 0]

get_values_grid(b) == [p \in Pos |-> b[p].value]

\* is_solved without the uniqueness checks
is_solved_filled_only(b) == \A p \in Pos : Cell_is_solved(b[p])

is_solved(b) ==
    \A p \in Pos :
        /\ Cell_is_solved(b[p])
        /\ b[p].value \notin {b[q].value : q \in Range(get_row(p[1])) \ {p}}
        /\ b[p].value \notin {b[q].value : q \in Range(get_col(p[2])) \ {p}}
        /\ b[p].value \notin {b[q].value : q \in Range(get_box(p[1], p[2])) \ {p}}

-----------------------------------------------------------------------------
(* utils/unit_processor.py: the 27 units, rows then columns then boxes *)

AllUnits ==
    [k \in 1..27 |->
        IF k <= 9 THEN get_row(k - 1)
        ELSE IF k <= 18 THEN get_col(k - 10)
        ELSE get_box(3 * ((k - 19) \div 3), 3 * ((k - 19) % 3))]

-----------------------------------------------------------------------------
(* models/technique_step.py *)

TechniqueStep(technique, focus_cells, value, eliminations) ==
    [technique |-> technique, focus_cells |-> focus_cells, value |-> value,
     eliminations |-> eliminations]

\* Python's None in the (False, None) return
None == TechniqueStep("None", <<>>, 0, {})

\* the (value, cell) pairs a placement removed, from the before/after snapshots
removed_pairs(prev, after, skip) ==
    {<<v, p>> \in Digits \X Pos :
        p # skip /\ v \in prev[p].candidates \ after[p].candidates}

-----------------------------------------------------------------------------
(* logic/naked_single.py *)

\* row-major rank of a position, the order of `for r ... for c ...`
RowMajor(p) == 9 * p[1] + p[2]

\* apply_one_naked_single taking the last cell with one candidate
apply_one_naked_single_last(b0) ==
    LET b == update_candidates(b0)
        singles == {p \in Pos : ~Cell_is_solved(b[p])
                                /\ Cardinality(b[p].candidates) = 1}
    IN  IF singles = {}
        THEN [changed |-> FALSE, board |-> b, step |-> None]
        ELSE
            LET p == CHOOSE q \in singles :
                        \A o \in singles : RowMajor(q) >= RowMajor(o)
                value == CHOOSE v \in b[p].candidates : TRUE
                placed == [b EXCEPT ![p] = set_candidates(set_value(@, value), {})]
                after == update_peers_candidates(placed, p[1], p[2], value)
            IN  [changed |-> TRUE, board |-> after,
                 step |-> TechniqueStep("Naked Single", <<p>>, value,
                                        removed_pairs(b, after, p))]

apply_one_naked_single(b0) ==
    LET b == update_candidates(b0)
        singles == {p \in Pos : ~Cell_is_solved(b[p])
                                /\ Cardinality(b[p].candidates) = 1}
    IN  IF singles = {}
        THEN [changed |-> FALSE, board |-> b, step |-> None]
        ELSE
            LET p == CHOOSE q \in singles :
                        \A o \in singles : RowMajor(q) <= RowMajor(o)
                value == CHOOSE v \in b[p].candidates : TRUE
                placed == [b EXCEPT ![p] = set_candidates(set_value(@, value), {})]
                after == update_peers_candidates(placed, p[1], p[2], value)
            IN  [changed |-> TRUE, board |-> after,
                 step |-> TechniqueStep("Naked Single", <<p>>, value,
                                        removed_pairs(b, after, p))]

-----------------------------------------------------------------------------
(* logic/hidden_single.py *)

\* candidate_positions[n] of find_hidden_single_in_unit
candidate_positions(b, unit, n) ==
    {i \in Idx : ~Cell_is_solved(b[unit[i]]) /\ n \in b[unit[i]].candidates}

\* the numbers that occur once or twice in the unit
hidden_single_nums_once_or_twice(b, unit) ==
    {n \in Digits : Cardinality(candidate_positions(b, unit, n)) \in 1..2}

\* the numbers that occur exactly once in the unit
hidden_single_nums(b, unit) ==
    {n \in Digits : Cardinality(candidate_positions(b, unit, n)) = 1}

\* apply_one_hidden_single trying the values of a unit in descending order
apply_one_hidden_single_descending(b0) ==
    LET b == update_candidates(b0)
        hits == {k \in 1..27 : hidden_single_nums(b, AllUnits[k]) # {}}
    IN  IF hits = {}
        THEN [changed |-> FALSE, board |-> b, step |-> None]
        ELSE
            LET k == CHOOSE x \in hits : \A y \in hits : x <= y
                unit == AllUnits[k]
                nums == hidden_single_nums(b, unit)
                value == CHOOSE n \in nums : \A m \in nums : n >= m
                i == CHOOSE j \in candidate_positions(b, unit, value) : TRUE
                p == unit[i]
                placed == [b EXCEPT ![p] = set_candidates(set_value(@, value), {})]
                after == update_peers_candidates(placed, p[1], p[2], value)
            IN  [changed |-> TRUE, board |-> after,
                 step |-> TechniqueStep("Hidden Single", <<p>>, value,
                                        removed_pairs(b, after, p))]

apply_one_hidden_single(b0) ==
    LET b == update_candidates(b0)
        hits == {k \in 1..27 : hidden_single_nums(b, AllUnits[k]) # {}}
    IN  IF hits = {}
        THEN [changed |-> FALSE, board |-> b, step |-> None]
        ELSE
            LET k == CHOOSE x \in hits : \A y \in hits : x <= y
                unit == AllUnits[k]
                nums == hidden_single_nums(b, unit)
                value == CHOOSE n \in nums : \A m \in nums : n <= m
                i == CHOOSE j \in candidate_positions(b, unit, value) : TRUE
                p == unit[i]
                placed == [b EXCEPT ![p] = set_candidates(set_value(@, value), {})]
                after == update_peers_candidates(placed, p[1], p[2], value)
            IN  [changed |-> TRUE, board |-> after,
                 step |-> TechniqueStep("Hidden Single", <<p>>, value,
                                        removed_pairs(b, after, p))]

-----------------------------------------------------------------------------
(* the accumulator the pair/triple techniques thread through the units:      *)
(* the board, `changed`, `focus_cells` and `elimination_map`                 *)

Acc(b) == [board |-> b, changed |-> FALSE, focus_cells |-> <<>>,
           eliminations |-> {}]

\* the positions of the unit at the indices idxs, in ascending index order
RECURSIVE positions_of(_, _, _)
positions_of(unit, idxs, i) ==
    IF i > 9 THEN <<>>
    ELSE (IF i \in idxs THEN <<unit[i]>> ELSE <<>>)
            \o positions_of(unit, idxs, i + 1)

\* eliminate_from_others listing every removed value for every touched cell
eliminate_from_others_all_values(acc, unit, idxs, to_remove) ==
    LET b == acc.board
        hit == {i \in Idx \ idxs : ~Cell_is_solved(b[unit[i]])
                                   /\ b[unit[i]].candidates \cap to_remove # {}}
        hitPos == {unit[i] : i \in hit}
        new == [p \in Pos |->
                  IF p \in hitPos
                  THEN set_candidates(b[p], b[p].candidates \ to_remove)
                  ELSE b[p]]
    IN  [board |-> IF new # b THEN new ELSE b,
         changed |-> acc.changed \/ hit # {},
         focus_cells |-> acc.focus_cells,
         eliminations |-> acc.eliminations \cup (to_remove \X hitPos),
         local_changed |-> hit # {}]

\* remove to_remove from every unsolved cell of the unit outside idxs
eliminate_from_others(acc, unit, idxs, to_remove) ==
    LET b == acc.board
        hit == {i \in Idx \ idxs : ~Cell_is_solved(b[unit[i]])
                                   /\ b[unit[i]].candidates \cap to_remove # {}}
        hitPos == {unit[i] : i \in hit}
        new == [p \in Pos |->
                  IF p \in hitPos
                  THEN set_candidates(b[p], b[p].candidates \ to_remove)
                  ELSE b[p]]
    IN  [board |-> IF new # b THEN new ELSE b,
         changed |-> acc.changed \/ hit # {},
         focus_cells |-> acc.focus_cells,
         eliminations |-> acc.eliminations \cup
            {<<v, p>> \in to_remove \X hitPos : v \in b[p].candidates},
         local_changed |-> hit # {}]

add_focus(acc, cells) ==
    [board |-> acc.board, changed |-> acc.changed,
     focus_cells |-> acc.focus_cells \o cells,
     eliminations |-> acc.eliminations]

technique_result(acc, technique) ==
    IF ~acc.changed
    THEN [changed |-> FALSE, board |-> acc.board, step |-> None]
    ELSE [changed |-> TRUE, board |-> acc.board,
          step |-> TechniqueStep(technique, acc.focus_cells, 0,
                                 acc.eliminations)]

-----------------------------------------------------------------------------
(* logic/naked_pairs.py *)

\* process_unit: `pairs` is built from the unit as it is when the unit is
\* entered (start); the eliminations act on the live board (acc.board)
RECURSIVE naked_pair_keys(_, _, _, _)
naked_pair_keys(acc, start, unit, i) ==
    IF i > 9 THEN acc
    ELSE
        LET has2(j) == ~Cell_is_solved(start[unit[j]])
                       /\ Cardinality(start[unit[j]].candidates) = 2
            key == start[unit[i]].candidates
            idxs == {j \in Idx : has2(j) /\ start[unit[j]].candidates = key}
            isKey == has2(i) /\ \A j \in 1..(i - 1) : j \notin idxs
            next == add_focus(eliminate_from_others(acc, unit, idxs, key),
                              positions_of(unit, idxs, 1))
        IN  IF isKey /\ Cardinality(idxs) = 2 /\ next # acc
            THEN naked_pair_keys(next, start, unit, i + 1)
            ELSE naked_pair_keys(acc, start, unit, i + 1)

\* process_unit giving up once something was eliminated, as the triple does
naked_pair_process_unit_once(acc, unit) ==
    IF acc.changed THEN acc ELSE naked_pair_keys(acc, acc.board, unit, 1)

naked_pair_process_unit(acc, unit) == naked_pair_keys(acc, acc.board, unit, 1)

RECURSIVE naked_pair_units(_, _)
naked_pair_units(acc, k) ==
    IF k > 27 THEN acc
    ELSE LET next == naked_pair_process_unit(acc, AllUnits[k])
         IN  IF next # acc THEN naked_pair_units(next, k + 1)
             ELSE naked_pair_units(acc, k + 1)

\* the board as each of the 27 process_unit calls of one apply_one_naked_pair
\* finds it
RECURSIVE naked_pair_entries(_, _)
naked_pair_entries(acc, k) ==
    IF k > 27 THEN <<>>
    ELSE LET next == naked_pair_process_unit(acc, AllUnits[k])
         IN  <<acc.board>> \o
                 (IF next # acc THEN naked_pair_entries(next, k + 1)
                  ELSE naked_pair_entries(acc, k + 1))

apply_one_naked_pair(b0) ==
    technique_result(naked_pair_units(Acc(update_candidates(b0)), 1),
                     "Naked Pair")

-----------------------------------------------------------------------------
(* logic/hidden_pairs.py *)

\* restrict_to_pair cutting down only the first of the two cells
restrict_to_pair_first_cell(acc, unit, pos1, allowed) ==
    LET b == acc.board
        hit == {i \in pos1 : /\ ~(b[unit[i]].candidates \subseteq allowed)
                             /\ \A j \in pos1 : i <= j}
        hitPos == {unit[i] : i \in hit}
        new == [p \in Pos |->
                  IF p \in hitPos
                  THEN set_candidates(b[p], b[p].candidates \cap allowed)
                  ELSE b[p]]
    IN  [board |-> IF new # b THEN new ELSE b,
         changed |-> acc.changed \/ hit # {},
         focus_cells |-> acc.focus_cells \o positions_of(unit, pos1, 1),
         eliminations |-> acc.eliminations \cup
            {<<v, p>> \in Digits \X hitPos : v \in b[p].candidates \ allowed}]

\* the body of `if len(pos1) == 2 and pos1 == pos2`: both cells are cut down
\* to the pair, whatever they hold now
restrict_to_pair(acc, unit, pos1, allowed) ==
    LET b == acc.board
        hit == {i \in pos1 : ~(b[unit[i]].candidates \subseteq allowed)}
        hitPos == {unit[i] : i \in hit}
        new == [p \in Pos |->
                  IF p \in hitPos
                  THEN set_candidates(b[p], b[p].candidates \cap allowed)
                  ELSE b[p]]
    IN  [board |-> IF new # b THEN new ELSE b,
         changed |-> acc.changed \/ hit # {},
         focus_cells |-> acc.focus_cells \o positions_of(unit, pos1, 1),
         eliminations |-> acc.eliminations \cup
            {<<v, p>> \in Digits \X hitPos : v \in b[p].candidates \ allowed}]

\* the double loop over nums[i], nums[j], i < j; candidate_positions is taken
\* from the unit as it is when the unit is entered (start)
RECURSIVE hidden_pair_nums(_, _, _, _, _)
hidden_pair_nums(acc, start, unit, c1, c2) ==
    IF c1 > 8 THEN acc
    ELSE IF c2 > 9 THEN hidden_pair_nums(acc, start, unit, c1 + 1, c1 + 2)
    ELSE
        LET pos1 == candidate_positions(start, unit, c1)
            pos2 == candidate_positions(start, unit, c2)
            next == restrict_to_pair(acc, unit, pos1, {c1, c2})
        IN  IF Cardinality(pos1) = 2 /\ pos1 = pos2 /\ next # acc
            THEN hidden_pair_nums(next, start, unit, c1, c2 + 1)
            ELSE hidden_pair_nums(acc, start, unit, c1, c2 + 1)

hidden_pair_process_unit(acc, unit) ==
    hidden_pair_nums(acc, acc.board, unit, 1, 2)

RECURSIVE hidden_pair_units(_, _)
hidden_pair_units(acc, k) ==
    IF k > 27 THEN acc
    ELSE LET next == hidden_pair_process_unit(acc, AllUnits[k])
         IN  IF next # acc THEN hidden_pair_units(next, k + 1)
             ELSE hidden_pair_units(acc, k + 1)

\* the board as each of the 27 process_unit calls of one
\* apply_one_hidden_pair finds it
RECURSIVE hidden_pair_entries(_, _)
hidden_pair_entries(acc, k) ==
    IF k > 27 THEN <<>>
    ELSE LET next == hidden_pair_process_unit(acc, AllUnits[k])
         IN  <<acc.board>> \o
                 (IF next # acc THEN hidden_pair_entries(next, k + 1)
                  ELSE hidden_pair_entries(acc, k + 1))

apply_one_hidden_pair(b0) ==
    technique_result(hidden_pair_units(Acc(update_candidates(b0)), 1),
                     "Hidden Pair")

-----------------------------------------------------------------------------
(* logic/naked_triples.py *)

\* unique_indices: the unsolved cells of the unit with 1 to 3 candidates
unique_indices(b, unit) ==
    {i \in Idx : ~Cell_is_solved(b[unit[i]])
                 /\ Cardinality(b[unit[i]].candidates) \in 1..3}

triple_candidates(b, unit, t) == UNION {b[unit[i]].candidates : i \in t}

\* the combinations of 3 eligible cells whose candidates are 3 values in all
\* and that remove something from another cell of the unit
productive_triples(b, unit) ==
    {t \in SUBSET unique_indices(b, unit) :
        /\ Cardinality(t) = 3
        /\ Cardinality(triple_candidates(b, unit, t)) = 3
        /\ \E i \in Idx \ t :
              /\ ~Cell_is_solved(b[unit[i]])
              /\ b[unit[i]].candidates \cap triple_candidates(b, unit, t) # {}}

\* apply_one_naked_triple going on to the last unit with a productive triple
apply_one_naked_triple_every_unit(b0) ==
    LET b == update_candidates(b0)
        hits == {k \in 1..27 : productive_triples(b, AllUnits[k]) # {}}
    IN  IF hits = {}
        THEN {[changed |-> FALSE, board |-> b, step |-> None]}
        ELSE
            LET k == CHOOSE x \in hits : \A y \in hits : x <= y
                l == CHOOSE x \in hits : \A y \in hits : x >= y
            IN  {technique_result(
                    add_focus(
                        eliminate_from_others(
                            eliminate_from_others(Acc(b), AllUnits[k], t,
                                triple_candidates(b, AllUnits[k], t)),
                            AllUnits[l], u, triple_candidates(b, AllUnits[l], u)),
                        positions_of(AllUnits[k], t, 1)),
                    "Naked Triple") :
                 t \in productive_triples(b, AllUnits[k]),
                 u \in productive_triples(b, AllUnits[l])}

\* The call applies the first productive triple of the first unit that has
\* one.  Which of a unit's triples comes first is the iteration order of
\* list(set(cell_indices)), which the language does not fix: every productive
\* triple of that unit is a possible outcome.
apply_one_naked_triple(b0) ==
    LET b == update_candidates(b0)
        hits == {k \in 1..27 : productive_triples(b, AllUnits[k]) # {}}
    IN  IF hits = {}
        THEN {[changed |-> FALSE, board |-> b, step |-> None]}
        ELSE
            LET k == CHOOSE x \in hits : \A y \in hits : x <= y
                unit == AllUnits[k]
            IN  {technique_result(
                    add_focus(
                        eliminate_from_others(Acc(b), unit, t,
                                              triple_candidates(b, unit, t)),
                        positions_of(unit, t, 1)),
                    "Naked Triple") : t \in productive_triples(b, unit)}

-----------------------------------------------------------------------------
(* services/validation_service.py and utilities/check_solvable.py: the two   *)
(* backtracking searches.  A grid is the caller's list of rows; every        *)
(* function returns its value together with the list as it leaves it.        *)

grid_get(g, p) == g[p[1] + 1][p[2] + 1]

grid_set(g, p, v) == [g EXCEPT ![p[1] + 1][p[2] + 1] = v]

\* [row[:] for row in puzzle]
copy_rows(g) == [r \in Idx |-> [c \in Idx |-> g[r][c]]]

Min(S) == CHOOSE x \in S : \A y \in S : x <= y

\* validation_service.get_candidates: the values of 1..9 used nowhere in the
\* row, the column and the box of the cell
get_candidates(g, row, col) ==
    Digits \ {grid_get(g, q) : q \in Range(get_row(row)) \cup Range(get_col(col))
                                      \cup Range(get_box(row, col))}

\* validation_service.find_empty_cell: the result when no cell is empty
NoCell == <<9, 9>>

find_empty_cell(g) ==
    LET empty == {p \in Pos : grid_get(g, p) = 0}
    IN  IF empty = {} THEN NoCell
        ELSE CHOOSE p \in empty : \A q \in empty : RowMajor(p) <= RowMajor(q)

RECURSIVE count_solutions(_, _)
RECURSIVE count_solutions_loop(_, _, _, _, _)

\* `for num in get_candidates(board, row, col)` of count_solutions, from the
\* candidates still to try (ascending) and the count so far
count_solutions_loop(g, max_solutions, cell, nums, solution_count) ==
    IF nums = {} THEN [count |-> solution_count, board |-> g]
    ELSE
        LET num == Min(nums)
            r == count_solutions(grid_set(g, cell, num), max_solutions)
            back == grid_set(r.board, cell, 0)
            total == solution_count + r.count
        IN  IF total >= max_solutions
            THEN [count |-> total, board |-> back]
            ELSE count_solutions_loop(back, max_solutions, cell,
                                      nums \ {num}, total)

count_solutions(g, max_solutions) ==
    LET cell == find_empty_cell(g)
    IN  IF cell = NoCell THEN [count |-> 1, board |-> g]
        ELSE count_solutions_loop(g, max_solutions, cell,
                                  get_candidates(g, cell[1], cell[2]), 0)

\* has_unique_solution: the returned flag and the caller's list afterwards
has_unique_solution(puzzle_arg) ==
    LET board_copy == copy_rows(puzzle_arg)
        r == count_solutions(board_copy, 2)
    IN  [ret |-> r.count = 1, caller |-> puzzle_arg]

\* check_solvable.get_candidates
check_solvable_get_candidates(g, row, col) ==
    Digits \ {grid_get(g, q) : q \in Range(get_row(row)) \cup Range(get_col(col))
                                      \cup Range(get_box(row, col))}

\* find_empty_cell_with_fewest_candidates scans the empty cells in row-major
\* order, keeps the first cell with strictly fewer candidates than any before
\* it, and returns at once when that number is 1: the result is the first cell
\* with one candidate if no cell without candidate precedes it, and the first
\* cell with the fewest candidates otherwise
find_empty_cell_with_fewest_candidates(g) ==
    LET empty == {p \in Pos : grid_get(g, p) = 0}
        len(p) == Cardinality(check_solvable_get_candidates(g, p[1], p[2]))
        first(S) == CHOOSE p \in S : \A q \in S : RowMajor(p) <= RowMajor(q)
        none == {p \in empty : len(p) = 0}
        one == {p \in empty : len(p) = 1}
        min_candidates == Min({len(p) : p \in empty})
    IN  IF empty = {} THEN NoCell
        ELSE IF one # {} /\ (none = {} \/ RowMajor(first(one)) < RowMajor(first(none)))
        THEN first(one)
        ELSE first({p \in empty : len(p) = min_candidates})

RECURSIVE solve(_)
RECURSIVE solve_loop(_, _, _)

\* `for num in get_candidates(board, row, col)` of check_solvable.solve
solve_loop(g, cell, nums) ==
    IF nums = {} THEN [ret |-> FALSE, board |-> g]
    ELSE
        LET num == Min(nums)
            r == solve(grid_set(g, cell, num))
        IN  IF r.ret THEN r
            ELSE solve_loop(grid_set(r.board, cell, 0), cell, nums \ {num})

solve(g) ==
    LET cell == find_empty_cell_with_fewest_candidates(g)
    IN  IF cell = NoCell THEN [ret |-> TRUE, board |-> g]
        ELSE solve_loop(g, cell,
                        check_solvable_get_candidates(g, cell[1], cell[2]))

\* check_solvable searching on the caller's list itself
check_solvable_no_copy(board_arg) ==
    LET r == solve(board_arg)
    IN  [ret |-> r.ret, caller |-> r.board]

\* check_solvable: the returned flag and the caller's list afterwards
check_solvable(board_arg) ==
    LET board_copy == copy_rows(board_arg)
        r == solve(board_copy)
    IN  [ret |-> r.ret, caller |-> board_arg]

\* validation_service.is_solvable
is_solvable(puzzle_arg) == check_solvable(puzzle_arg)

-----------------------------------------------------------------------------
(* input grids *)

ScenarioA ==
    << <<5,3,0,0,7,0,0,0,0>>, <<6,0,0,1,9,5,0,0,0>>, <<0,9,8,0,0,0,0,6,0>>,
       <<8,0,0,0,6,0,0,0,3>>, <<4,0,0,8,0,3,0,0,1>>, <<7,0,0,0,2,0,0,0,6>>,
       <<0,6,0,0,0,0,2,8,0>>, <<0,0,0,4,1,9,0,0,5>>, <<0,0,0,0,8,0,0,7,9>> >>

EmptyRow == <<0,0,0,0,0,0,0,0,0>>

EmptyGrid == [r \in Idx |-> EmptyRow]

\* Scenario C: a duplicate 5 in row 0
DuplicateGrid == [r \in Idx |-> IF r = 1 THEN <<5,5,0,0,7,0,0,0,0>> ELSE EmptyRow]

\* (0,0) and (0,1) are a naked pair {1,2} of row 0 and of box 0
NakedPairGrid == [r \in Idx |-> IF r = 1 THEN <<0,0,3,4,5,6,7,8,9>> ELSE EmptyRow]

\* the naked pair of NakedPairGrid together with a naked single at (8,8)
MixedGrid ==
    [r \in Idx |-> IF r = 1 THEN <<0,0,3,4,5,6,7,8,9>>
                   ELSE IF r = 9 THEN <<3,4,5,6,7,8,9,1,0>> ELSE EmptyRow]

\* 1 and 2 are confined to (0,0) and (0,1) in row 0
HiddenPairGrid ==
    << EmptyRow,
       <<0,0,0,1,0,0,2,0,0>>,
       <<0,0,0,0,2,0,0,1,0>>,
       EmptyRow,
       <<0,0,1,0,0,0,0,0,0>>,
       <<0,0,2,0,0,0,0,0,0>>,
       EmptyRow, EmptyRow, EmptyRow >>

\* (0,0), (0,1), (0,2) are a naked triple {1,2,3} of row 0 and of box 0
NakedTripleGrid == [r \in Idx |-> IF r = 1 THEN <<0,0,0,4,5,6,7,8,9>> ELSE EmptyRow]

\* no repeated given, yet (0,8) has no candidate left
ContradictionGrid ==
    [r \in Idx |-> IF r = 1 THEN <<1,2,3,4,5,6,7,8,0>>
                   ELSE IF r = 2 THEN <<0,0,0,0,0,0,0,0,9>> ELSE EmptyRow]

\* a complete valid grid
SolutionGrid ==
    [r \in Idx |-> [c \in Idx |->
        ((3 * ((r - 1) % 3) + ((r - 1) \div 3) + (c - 1)) % 9) + 1]]

\* a complete grid with a repeated value: (0,0) copies (0,1)
FullDuplicateGrid ==
    [r \in Idx |-> [c \in Idx |->
        IF r = 1 /\ c = 1 THEN SolutionGrid[1][2] ELSE SolutionGrid[r][c]]]

\* the cells that may be blanked in SolutionGrid, and how many of them at most
HoleCells == {<<0,0>>, <<0,1>>, <<1,0>>, <<4,4>>, <<8,8>>}

MaxHoles == 2

HoleGrids ==
    {[r \in Idx |-> [c \in Idx |->
        IF <<r - 1, c - 1>> \in H THEN 0 ELSE SolutionGrid[r][c]]] :
      H \in {H \in SUBSET HoleCells : Cardinality(H) <= MaxHoles}}

CraftedGrids ==
    {EmptyGrid, DuplicateGrid, NakedPairGrid, MixedGrid, HiddenPairGrid,
     NakedTripleGrid, ContradictionGrid, FullDuplicateGrid}

\* 1 and 2 are confined to (0,0) and (0,1) in row 0, 1 and 3 to (6,0) and
\* (6,1) in row 6, and 1 and 3 to (0,0) and (6,0) in column 0; the two cells of
\* row 0 hold different further candidates
CrossPairGrid ==
    << EmptyRow,
       <<0,0,0,1,3,0,2,0,0>>,
       <<9,0,0,0,2,0,0,1,0>>,
       <<0,0,3,0,0,0,0,0,0>>,
       <<0,8,1,0,0,0,0,0,0>>,
       <<0,0,2,0,0,0,0,0,0>>,
       EmptyRow,
       <<0,0,0,0,1,3,0,0,0>>,
       <<0,0,0,0,0,0,1,3,0>> >>

\* a naked pair {1,2} in row 0 and box 0 and another in row 8 and box 8; the
\* cells of row 1 in box 0 hold 2 but not 1
TwoPairsGrid ==
    [r \in Idx |-> IF r = 1 THEN <<0,0,3,4,5,6,7,8,9>>
                   ELSE IF r = 2 THEN <<0,0,0,0,1,0,0,0,0>>
                   ELSE IF r = 9 THEN <<9,3,4,5,6,7,8,0,0>> ELSE EmptyRow]

\* (0,0), (0,1) and (0,2) all hold {1,2}
ThreeOfAPairGrid ==
    [r \in Idx |-> IF r = 1 THEN <<0,0,0,4,5,6,7,8,9>>
                   ELSE IF r = 2 THEN <<3,0,0,0,0,0,0,0,0>> ELSE EmptyRow]

\* 1 is a hidden single of column 0 and of box 0 at (0,0), of no row
ColumnSingleGrid ==
    [r \in Idx |-> IF r = 2 THEN <<5,0,0,0,0,0,0,0,0>>
                   ELSE IF r = 3 THEN <<6,0,0,0,0,0,0,0,0>>
                   ELSE IF r = 4 THEN <<0,1,0,0,0,0,0,0,0>>
                   ELSE IF r = 7 THEN <<0,0,1,0,0,0,0,0,0>> ELSE EmptyRow]

\* 1, 2 and 3 are all confined to (0,0) and (0,1) in row 0
ThreeInTwoGrid ==
    << EmptyRow,
       <<0,0,0,1,0,3,2,0,0>>,
       <<0,0,0,0,2,0,0,1,3>>,
       EmptyRow,
       <<0,0,1,0,0,0,0,0,0>>,
       <<0,0,2,0,0,0,0,0,0>>,
       <<0,0,3,0,0,0,0,0,0>>,
       EmptyRow, EmptyRow >>

\* a naked triple {1,2,3} in row 0 and box 0 and another in row 8 and box 8
TwoTriplesGrid ==
    [r \in Idx |-> IF r = 1 THEN <<0,0,0,4,5,6,7,8,9>>
                   ELSE IF r = 9 THEN <<9,4,5,6,7,8,0,0,0>> ELSE EmptyRow]

\* (0,0), (0,1), (0,2) hold {1,2}, {2,3}, {1,3} and (0,3) holds {1,4}
MixedTripleGrid ==
    << <<0,0,0,0,5,6,7,8,9>>,
       <<0,0,4,0,0,0,0,0,0>>,
       EmptyRow,
       <<3,0,2,0,0,0,0,0,0>>,
       <<0,0,0,2,0,0,0,0,0>>,
       <<0,1,0,3,0,0,0,0,0>>,
       EmptyRow, EmptyRow, EmptyRow >>

\* SolutionGrid with 51 cells blanked: it has one solution, and the
\* step-by-step solver gets as far as a hidden pair on it
HiddenPairPuzzle ==
    << <<1,2,0,0,0,0,7,0,0>>,
       <<0,0,6,7,0,9,1,0,3>>,
       <<0,0,9,0,2,0,0,5,0>>,
       <<2,3,0,5,6,0,0,0,0>>,
       <<0,0,7,8,0,0,0,3,0>>,
       <<8,0,0,0,3,4,0,0,0>>,
       <<0,0,5,6,7,0,0,1,0>>,
       <<6,0,0,9,1,0,0,0,0>>,
       <<0,1,0,0,0,0,0,0,8>> >>

\* SolutionGrid with 50 cells blanked: it has one solution, and the
\* step-by-step solver gets as far as a naked pair on it
NakedPairPuzzle ==
    << <<1,2,0,0,5,0,7,0,9>>,
       <<0,0,0,7,0,0,0,0,3>>,
       <<0,0,9,0,2,0,0,5,0>>,
       <<2,0,0,0,6,0,8,0,1>>,
       <<5,0,7,8,0,1,2,3,0>>,
       <<8,0,0,0,3,0,5,0,0>>,
       <<0,4,5,0,0,0,0,1,0>>,
       <<6,0,0,0,0,2,0,0,0>>,
       <<0,1,0,3,0,0,0,0,8>> >>

\* SolutionGrid with 52 cells blanked: it has one solution, and both
\* solvers solve it, the frontend solver with the help of a naked triple
TriplePuzzle ==
    << <<0,0,0,0,0,0,7,0,0>>,
       <<0,0,6,0,8,9,0,0,3>>,
       <<0,8,0,1,2,3,0,5,0>>,
       <<2,3,0,0,6,7,8,0,0>>,
       <<0,6,0,8,0,1,0,0,4>>,
       <<0,9,0,0,0,0,0,0,0>>,
       <<0,0,5,0,0,8,0,1,0>>,
       <<6,0,8,0,0,0,3,4,0>>,
       <<9,1,0,0,0,0,0,0,0>> >>

\* no repeated given, and 9 is the only candidate of both (0,7) and (0,8)
RivalSinglesGrid ==
    [r \in Idx |-> IF r = 1 THEN <<1,2,3,4,5,6,7,0,0>>
                   ELSE IF r = 4 THEN <<0,0,0,0,0,0,0,8,0>>
                   ELSE IF r = 7 THEN <<0,0,0,0,0,0,0,0,8>> ELSE EmptyRow]

\* {1,2} in (0,0) and (0,1) of row 0, {1,3} in (3,0) and (4,0) of column 0
ColumnOverRowPairGrid ==
    << <<0,0,3,4,5,6,7,8,9>>,
       EmptyRow,
       EmptyRow,
       <<0,4,2,0,9,0,0,0,0>>,
       <<0,5,6,0,0,0,0,9,0>>,
       <<0,7,8,0,0,0,0,0,0>>,
       EmptyRow,
       EmptyRow,
       EmptyRow >>

TechniqueGrids ==
    {CrossPairGrid, TwoPairsGrid, ThreeOfAPairGrid, ColumnSingleGrid,
     ThreeInTwoGrid, TwoTriplesGrid, MixedTripleGrid, RivalSinglesGrid,
     ColumnOverRowPairGrid}

BoardPuzzles == CraftedGrids \cup HoleGrids \cup TechniqueGrids

SolvePuzzles == CraftedGrids \cup HoleGrids \cup {ScenarioA}

-----------------------------------------------------------------------------
(* config/settings.py and the solvers' constructors *)

SUDOKU_MAX_ITERATIONS == 100

\* the largest max_iterations argument tried besides the default
MaxIterArg == 3

\* the grids solved with the default cap (max_iterations=None)
DefaultCapPuzzles == {ScenarioA, EmptyGrid, HiddenPairPuzzle, NakedPairPuzzle,
                      TriplePuzzle}

\* self.techniques with the two pair techniques exchanged
FrontendTechniques_swapped ==
    <<"Naked Singles", "Hidden Singles", "Naked Pairs", "Hidden Pairs",
      "Naked Triples">>

FrontendTechniques ==
    <<"Naked Singles", "Hidden Singles", "Hidden Pairs", "Naked Pairs",
      "Naked Triples">>

StepByStepTechniques ==
    <<"Naked Single", "Hidden Single", "Naked Pair", "Hidden Pair">>

techniques(s) ==
    IF s = "frontend" THEN FrontendTechniques ELSE StepByStepTechniques

\* the outcomes of one apply_one_* call of the named technique
technique_func(name, b) ==
    CASE name \in {"Naked Single", "Naked Singles"} -> {apply_one_naked_single(b)}
      [] name \in {"Hidden Single", "Hidden Singles"} -> {apply_one_hidden_single(b)}
      [] name \in {"Naked Pair", "Naked Pairs"} -> {apply_one_naked_pair(b)}
      [] name \in {"Hidden Pair", "Hidden Pairs"} -> {apply_one_hidden_pair(b)}
      [] name \in {"Naked Triple", "Naked Triples"} -> apply_one_naked_triple(b)

-----------------------------------------------------------------------------
(* bookkeeping shared by the actions *)

has_empty_cell(b) ==
    \E p \in Pos : ~Cell_is_solved(b[p]) /\ b[p].candidates = {}

Ret(call, r) == [call |-> call, changed |-> r.changed, step |-> r.step]

NoRet == [call |-> "none", changed |-> FALSE, step |-> None]

NoResult ==
    [solved_grid |-> <<>>, is_solved |-> FALSE, message |-> "none",
     techniques_applied |-> <<>>, iterations |-> 0, solving_steps |-> <<>>]

Call(name, flag) == [name |-> name, changed |-> flag]

Step(step_type, technique, description) ==
    [step_type |-> step_type, technique |-> technique,
     description |-> description]

append_new(list, name) ==
    IF name \in Range(list) THEN list ELSE Append(list, name)

filled_count(b) == Cardinality({p \in Pos : b[p].value # 0})

-----------------------------------------------------------------------------
(* a SudokuBoard driven directly: construction, then any sequence of          *)
(* update_candidates / update_peers_candidates / apply_one_* calls            *)

BoardInit ==
    /\ puzzle \in BoardPuzzles
    /\ board = SudokuBoard(puzzle)
    /\ refreshed = FALSE
    /\ ret = NoRet
    /\ solver = "none"
    /\ MAX_ITERATIONS = 0
    /\ pc = "board"
    /\ changed = FALSE
    /\ iteration = 0
    /\ ti = 0
    /\ all_changed = FALSE
    /\ before = board
    /\ techniques_applied = <<>>
    /\ solving_steps = <<>>
    /\ progress = {}
    /\ calls = <<>>
    /\ saw_empty = FALSE
    /\ result = NoResult
    /\ returned = <<>>

CallUpdateCandidates ==
    /\ pc = "board"
    /\ board' = update_candidates(board)
    /\ ret' = [call |-> "update_candidates",
               changed |-> constraint_changes(board, Pos) # {}, step |-> None]
    /\ refreshed' = TRUE
    /\ UNCHANGED <<returned, puzzle, solveVars>>

\* the cells for which update_peers_candidates is called on its own
PeerCallCells == {<<0, 2>>, <<0, 3>>, <<1, 8>>}

\* update_peers_candidates(r, c, value) for a placed value, as the techniques
\* call it
CallUpdatePeersCandidates ==
    /\ pc = "board"
    /\ \E p \in PeerCallCells :
        /\ Cell_is_solved(board[p])
        /\ board' = update_peers_candidates(board, p[1], p[2], board[p].value)
        /\ ret' = [call |-> "update_peers_candidates",
                   changed |-> board' # board, step |-> None]
    /\ UNCHANGED <<returned, puzzle, refreshed, solveVars>>

CallTechnique(name) ==
    /\ pc = "board"
    /\ \E r \in technique_func(name, board) :
        /\ board' = r.board
        /\ ret' = Ret(name, r)
    /\ refreshed' = TRUE
    /\ UNCHANGED <<returned, puzzle, solveVars>>

CallNakedSingle == CallTechnique("Naked Single")

CallHiddenSingle == CallTechnique("Hidden Single")

CallNakedPair == CallTechnique("Naked Pair")

CallHiddenPair == CallTechnique("Hidden Pair")

CallNakedTriple == CallTechnique("Naked Triple")

BoardNext ==
    \/ CallUpdateCandidates
    \/ CallUpdatePeersCandidates
    \/ CallNakedSingle
    \/ CallHiddenSingle
    \/ CallNakedPair
    \/ CallHiddenPair
    \/ CallNakedTriple

BoardSpec == BoardInit /\ [][BoardNext]_vars

-----------------------------------------------------------------------------
(* FrontendSudokuSolver.solve and StepByStepSolver.solve *)

SolveInit ==
    /\ \/ puzzle \in SolvePuzzles /\ MAX_ITERATIONS \in 0..MaxIterArg
       \/ puzzle \in DefaultCapPuzzles
          /\ MAX_ITERATIONS = SUDOKU_MAX_ITERATIONS
    /\ solver \in {"frontend", "stepbystep"}
    /\ board = SudokuBoard(puzzle)
    /\ refreshed = FALSE
    /\ ret = NoRet
    /\ pc = "propagate"
    /\ changed = TRUE
    /\ iteration = 0
    /\ ti = 0
    /\ all_changed = FALSE
    /\ before = board
    /\ techniques_applied = <<>>
    /\ solving_steps = <<>>
    /\ progress = {}
    /\ calls = <<>>
    /\ saw_empty = FALSE
    /\ result = NoResult
    /\ returned = <<>>

\* "Step 1: Initial constraint propagation"
InitialPropagation ==
    /\ pc = "propagate"
    /\ board' = update_candidates(board)
    /\ solving_steps' =
        IF constraint_changes(board, Pos) # {}
        THEN <<IF solver = "frontend"
               THEN Step("initial_constraints", "Initial Setup", "starting puzzle")
               ELSE Step("constraint_elimination", "Constraint Propagation",
                         "starting puzzle")>>
        ELSE <<>>
    /\ refreshed' = TRUE
    /\ saw_empty' = has_empty_cell(board')
    /\ pc' = "while"
    /\ UNCHANGED <<returned, puzzle, ret, solver, MAX_ITERATIONS, changed, iteration, ti,
                   all_changed, before, techniques_applied, progress, calls,
                   result>>

\* the loop condition with <= for <
loop_condition_off_by_one ==
    /\ changed
    /\ iteration <= MAX_ITERATIONS
    /\ (solver = "stepbystep" => ~is_solved(board))

\* the loop condition of `while changed and iteration < self.MAX_ITERATIONS`
\* (StepByStepSolver: `and not board.is_solved()`)
loop_condition ==
    /\ changed
    /\ iteration < MAX_ITERATIONS
    /\ (solver = "stepbystep" => ~is_solved(board))

\* the loop is entered: changed = False, iteration += 1, first technique next
WhileEnter ==
    /\ pc = "while"
    /\ loop_condition
    /\ changed' = FALSE
    /\ iteration' = iteration + 1
    /\ ti' = 1
    /\ all_changed' = FALSE
    /\ before' = board
    /\ calls' = <<>>
    /\ pc' = "for"
    /\ UNCHANGED <<returned, puzzle, board, refreshed, ret, solver, MAX_ITERATIONS,
                   techniques_applied, solving_steps, progress, saw_empty,
                   result>>

WhileExit ==
    /\ pc = "while"
    /\ ~loop_condition
    /\ pc' = "final"
    /\ UNCHANGED <<returned, puzzle, board, refreshed, ret, solver, MAX_ITERATIONS,
                   changed, iteration, ti, all_changed, before,
                   techniques_applied, solving_steps, progress, calls,
                   saw_empty, result>>

\* the cells whose candidates the technique cut and that it left unsolved
technique_eliminations(prev, after) ==
    {p \in Pos : /\ prev[p].candidates # after[p].candidates
                 /\ prev[p].candidates \ after[p].candidates # {}
                 /\ after[p].value = 0}

\* FrontendSudokuSolver: a call of apply_one_* inside apply_all_* that
\* returned True; apply_all_* loops
FrontendApplyOne ==
    /\ pc = "for"
    /\ solver = "frontend"
    /\ \E r \in technique_func(FrontendTechniques[ti], board) :
        /\ r.changed
        /\ board' = r.board
        /\ ret' = Ret(FrontendTechniques[ti], r)
    /\ all_changed' = TRUE
    /\ progress' = progress \cup {FrontendTechniques[ti]}
    /\ calls' = Append(calls, Call(FrontendTechniques[ti], TRUE))
    /\ saw_empty' = (saw_empty \/ has_empty_cell(board'))
    /\ UNCHANGED <<returned, puzzle, refreshed, solver, MAX_ITERATIONS, pc, changed,
                   iteration, ti, before, techniques_applied, solving_steps,
                   result>>

\* FrontendSudokuSolver: the apply_one_* call that returns False ends
\* apply_all_*, which returns the tuple (changed, steps); solve tests the
\* tuple itself (`if technique_applied:`), and a 2-tuple is always true
FrontendTechniqueReturn ==
    /\ pc = "for"
    /\ solver = "frontend"
    /\ \E r \in technique_func(FrontendTechniques[ti], board) :
        /\ ~r.changed
        /\ ret' = Ret(FrontendTechniques[ti], r)
        /\ LET name == FrontendTechniques[ti]
               technique_applied == <<all_changed, "steps">>
               truthy == Len(technique_applied) > 0
               after == r.board
               cells_solved == filled_count(after) - filled_count(before)
               elims == technique_eliminations(before, after)
               stepA == IF cells_solved > 0 \/ elims # {}
                        THEN <<Step("technique", name, "Step")>> ELSE <<>>
               stepB == IF cells_solved > 0
                           /\ constraint_changes(after, Pos) # {}
                        THEN <<Step("constraint_elimination",
                                    "Constraint Propagation",
                                    "newly filled cells")>>
                        ELSE <<>>
               final == IF cells_solved > 0 THEN update_candidates(after)
                        ELSE after
           IN  IF truthy
               THEN /\ changed' = TRUE
                    /\ techniques_applied' = append_new(techniques_applied, name)
                    /\ solving_steps' = solving_steps \o stepA \o stepB
                    /\ board' = final
               ELSE /\ board' = after
                    /\ UNCHANGED <<changed, techniques_applied, solving_steps>>
    /\ calls' = Append(calls, Call(FrontendTechniques[ti], FALSE))
    /\ all_changed' = FALSE
    /\ before' = board'
    /\ saw_empty' = (saw_empty \/ has_empty_cell(board'))
    /\ IF ti < Len(FrontendTechniques)
       THEN ti' = ti + 1 /\ pc' = "for"
       ELSE ti' = ti /\ pc' = "while"
    /\ UNCHANGED <<returned, puzzle, refreshed, solver, MAX_ITERATIONS, iteration,
                   progress, result>>

\* StepByStepSolver: one pass of `for technique_name, technique_func in
\* self.techniques`
StepByStepTechnique ==
    /\ pc = "for"
    /\ solver = "stepbystep"
    /\ IF is_solved(board)
       THEN /\ pc' = "while"
            /\ UNCHANGED <<board, ret, changed, ti, techniques_applied,
                           solving_steps, progress, calls, before>>
       ELSE
        \E r \in technique_func(StepByStepTechniques[ti], board) :
           LET name == StepByStepTechniques[ti]
               after == r.board
               cells_solved ==
                   Cardinality({p \in Pos : board[p].value = 0
                                            /\ after[p].value # 0})
               stepB == IF cells_solved > 0
                           /\ constraint_changes(after, Pos) # {}
                        THEN <<Step("constraint_elimination",
                                    "Constraint Propagation",
                                    "newly filled cells")>>
                        ELSE <<>>
           IN  /\ ret' = Ret(name, r)
               /\ calls' = Append(calls, Call(name, r.changed))
               /\ before' = board
               /\ IF r.changed /\ r.step # None
                  THEN /\ changed' = TRUE
                       /\ techniques_applied' =
                            append_new(techniques_applied, name)
                       /\ progress' = progress \cup {name}
                       /\ solving_steps' =
                            Append(solving_steps,
                                   Step("technique", r.step.technique, "Step"))
                                \o stepB
                       /\ board' = IF cells_solved > 0
                                   THEN update_candidates(after) ELSE after
                       /\ ti' = ti
                       /\ pc' = "while"
                  ELSE /\ board' = after
                       /\ UNCHANGED <<changed, techniques_applied, progress,
                                      solving_steps>>
                       /\ IF ti < Len(StepByStepTechniques)
                          THEN ti' = ti + 1 /\ pc' = "for"
                          ELSE ti' = ti /\ pc' = "while"
    /\ saw_empty' = (saw_empty \/ has_empty_cell(board'))
    /\ UNCHANGED <<returned, puzzle, refreshed, solver, MAX_ITERATIONS, iteration,
                   all_changed, result>>

\* "Final state" ... return {...}
Return ==
    /\ pc = "final"
    /\ result' =
        [solved_grid |-> get_values_grid(board),
         is_solved |-> is_solved(board),
         message |-> IF is_solved(board) THEN "Puzzle solved successfully"
                     ELSE "Partial solution",
         techniques_applied |-> techniques_applied,
         iterations |-> iteration,
         solving_steps |-> solving_steps]
    /\ pc' = "done"
    /\ UNCHANGED <<returned, puzzle, board, refreshed, ret, solver, MAX_ITERATIONS,
                   changed, iteration, ti, all_changed, before,
                   techniques_applied, solving_steps, progress, calls,
                   saw_empty>>

Next ==
    \/ InitialPropagation
    \/ WhileEnter
    \/ WhileExit
    \/ FrontendApplyOne
    \/ FrontendTechniqueReturn
    \/ StepByStepTechnique
    \/ Return

Spec == SolveInit /\ [][Next]_vars

-----------------------------------------------------------------------------
(* a caller holding one grid and handing it to is_solvable,                  *)
(* has_unique_solution, count_solutions and solve, as api/routes.py does     *)

\* the cells blanked in the grids given to the searches
OracleHoleCells ==
    {<<0,2>>, <<0,5>>, <<0,8>>, <<1,2>>, <<1,5>>, <<1,8>>, <<2,2>>, <<2,5>>}

blank(g, H) ==
    [r \in Idx |-> [c \in Idx |-> IF <<r - 1, c - 1>> \in H THEN 0 ELSE g[r][c]]]

\* SolutionGrid with a 9 for the 6 at (2,8): with (0,8), (1,5) and (2,2)
\* blanked no given is repeated and no filling is valid
AlteredGrid ==
    [r \in Idx |-> [c \in Idx |->
        IF r = 3 /\ c = 9 THEN 9 ELSE SolutionGrid[r][c]]]

\* a valid complete grid, a complete grid with a repeated 2 in row 0 and the
\* altered grid, each with any of the hole cells blanked, and a grid with a
\* cell without candidate
OracleGrids ==
    {blank(SolutionGrid, H) : H \in SUBSET OracleHoleCells}
        \cup {blank(FullDuplicateGrid, H) : H \in SUBSET OracleHoleCells}
        \cup {blank(AlteredGrid, H) : H \in SUBSET OracleHoleCells}
        \cup {ContradictionGrid}

NoCall == [call |-> "none", value |-> FALSE]

OracleInit ==
    /\ puzzle \in OracleGrids
    /\ board = SudokuBoard(puzzle)
    /\ refreshed = FALSE
    /\ ret = NoRet
    /\ solver = "none"
    /\ MAX_ITERATIONS = 0
    /\ pc = "oracle"
    /\ changed = TRUE
    /\ iteration = 0
    /\ ti = 0
    /\ all_changed = FALSE
    /\ before = board
    /\ techniques_applied = <<>>
    /\ solving_steps = <<>>
    /\ progress = {}
    /\ calls = <<>>
    /\ saw_empty = FALSE
    /\ result = NoCall
    /\ returned = <<>>

oracleFrame == <<returned, board, refreshed, ret, solver, MAX_ITERATIONS, pc, changed,
                 iteration, ti, all_changed, before, techniques_applied,
                 solving_steps, progress, calls, saw_empty>>

CallIsSolvable ==
    /\ pc = "oracle"
    /\ LET r == is_solvable(puzzle)
       IN  /\ puzzle' = r.caller
           /\ result' = [call |-> "is_solvable", value |-> r.ret]
    /\ UNCHANGED oracleFrame

CallHasUniqueSolution ==
    /\ pc = "oracle"
    /\ LET r == has_unique_solution(puzzle)
       IN  /\ puzzle' = r.caller
           /\ result' = [call |-> "has_unique_solution", value |-> r.ret]
    /\ UNCHANGED oracleFrame

\* count_solutions(board, max_solutions=2) called on the caller's own list
CallCountSolutions ==
    /\ pc = "oracle"
    /\ LET r == count_solutions(puzzle, 2)
       IN  /\ puzzle' = r.board
           /\ result' = [call |-> "count_solutions", value |-> r.count]
    /\ UNCHANGED oracleFrame

\* solver.solve(puzzle) on the same grid
StartSolve ==
    /\ pc = "oracle"
    /\ solver' \in {"frontend", "stepbystep"}
    /\ MAX_ITERATIONS' = 2
    /\ board' = SudokuBoard(puzzle)
    /\ before' = board'
    /\ result' = NoResult
    /\ pc' = "propagate"
    /\ UNCHANGED <<returned, puzzle, refreshed, ret, changed, iteration, ti, all_changed,
                   techniques_applied, solving_steps, progress, calls,
                   saw_empty>>

OracleNext ==
    \/ CallIsSolvable
    \/ CallHasUniqueSolution
    \/ CallCountSolutions
    \/ StartSolve
    \/ Next

OracleSpec == OracleInit /\ [][OracleNext]_vars

-----------------------------------------------------------------------------
(* one solver instance (the module-level frontend_solver or                  *)
(* step_by_step_solver) serving one solve call after another                  *)

\* the grids the caller hands in: one that gets stuck after a naked single and
\* a naked pair, one with a naked triple, one that gets solved
SessionPuzzles ==
    {MixedGrid, NakedTripleGrid, blank(SolutionGrid, {<<0,0>>, <<4,4>>})}

\* how many solve calls the caller makes
MaxSolveCalls == 3

\* solve's bookkeeping kept on the instance instead of in locals
solve_locals_kept ==
    [techniques_applied |-> techniques_applied,
     solving_steps |-> solving_steps,
     changed |-> changed, iteration |-> iteration]

\* the locals solve creates on entry: techniques_applied = [],
\* solving_steps = [], changed = True, iteration = 0
solve_locals ==
    [techniques_applied |-> <<>>, solving_steps |-> <<>>,
     changed |-> TRUE, iteration |-> 0]

SessionInit ==
    /\ puzzle \in SessionPuzzles
    /\ solver \in {"frontend", "stepbystep"}
    /\ MAX_ITERATIONS = MaxIterArg
    /\ board = SudokuBoard(puzzle)
    /\ refreshed = FALSE
    /\ ret = NoRet
    /\ pc = "propagate"
    /\ changed = TRUE
    /\ iteration = 0
    /\ ti = 0
    /\ all_changed = FALSE
    /\ before = board
    /\ techniques_applied = <<>>
    /\ solving_steps = <<>>
    /\ progress = {}
    /\ calls = <<>>
    /\ saw_empty = FALSE
    /\ result = NoResult
    /\ returned = <<>>

\* the caller takes the dict solve returned and calls solve on the same
\* instance with its next grid
SolveAgain ==
    /\ pc = "done"
    /\ Len(returned) + 1 < MaxSolveCalls
    /\ returned' = Append(returned, [puzzle |-> puzzle, result |-> result])
    /\ puzzle' \in SessionPuzzles
    /\ board' = SudokuBoard(puzzle')
    /\ before' = board'
    /\ techniques_applied' = solve_locals.techniques_applied
    /\ solving_steps' = solve_locals.solving_steps
    /\ changed' = solve_locals.changed
    /\ iteration' = solve_locals.iteration
    /\ refreshed' = FALSE
    /\ ret' = NoRet
    /\ ti' = 0
    /\ all_changed' = FALSE
    /\ progress' = {}
    /\ calls' = <<>>
    /\ saw_empty' = FALSE
    /\ result' = NoResult
    /\ pc' = "propagate"
    /\ UNCHANGED <<solver, MAX_ITERATIONS>>

\* the caller takes the dict of its last solve call
LastReturn ==
    /\ pc = "done"
    /\ Len(returned) + 1 = MaxSolveCalls
    /\ returned' = Append(returned, [puzzle |-> puzzle, result |-> result])
    /\ pc' = "idle"
    /\ UNCHANGED <<puzzle, board, refreshed, ret, solver, MAX_ITERATIONS,
                   changed, iteration, ti, all_changed, before,
                   techniques_applied, solving_steps, progress, calls,
                   saw_empty, result>>

SessionNext ==
    \/ SolveAgain
    \/ LastReturn
    \/ Next

SessionSpec == SessionInit /\ [][SessionNext]_vars

-----------------------------------------------------------------------------
(* properties *)

SameUnit(p, q) ==
    \/ p[1] = q[1]
    \/ p[2] = q[2]
    \/ (p[1] \div 3 = q[1] \div 3 /\ p[2] \div 3 = q[2] \div 3)

NoSolvedPeerValue(b) ==
    \A p \in Pos : \A q \in Pos :
        (p # q /\ SameUnit(p, q) /\ b[p].value = 0 /\ b[q].value # 0)
            => b[q].value \notin b[p].candidates

\* C1 as stated: in every reachable state of a SudokuBoard, from construction
\* onward, no unsolved cell has the value of a solved peer among its
\* candidates.
C1_FromConstruction == NoSolvedPeerValue(board)

\* C1 as amended: once update_candidates has run on the board (every technique
\* runs it first), no unsolved cell has the value of a solved cell of its row,
\* column or box among its candidates, whatever calls follow.
C1_AfterFirstRefresh == refreshed => NoSolvedPeerValue(board)

C1_Witness ==
    /\ refreshed
    /\ \E p \in Pos : \E q \in Pos :
        /\ p # q /\ SameUnit(p, q)
        /\ board[q].value # 0 /\ ~board[q].is_initial
        /\ board[p].value = 0 /\ board[p].candidates # {}

\* C2: across every propagation call and every technique call each candidate
\* set only shrinks, a solved cell keeps its value, and the candidate set of a
\* solved cell is and stays empty.
C2_OnlyTowardsSolved ==
    [][\A p \in Pos :
          /\ board'[p].candidates \subseteq board[p].candidates
          /\ board[p].value # 0 => board'[p].value = board[p].value
          /\ board'[p].value # 0 => board'[p].candidates = {}]_vars

C2_Witness ==
    /\ ret.changed
    /\ ret.call = "Naked Pair"
    /\ \E p \in Pos : board[p].value # 0 /\ ~board[p].is_initial

\* a complete grid in which no two cells of a row, column or box are equal
ValidComplete(g) ==
    /\ \A p \in Pos : g[p] \in Digits
    /\ \A p \in Pos : \A q \in Pos : (p # q /\ SameUnit(p, q)) => g[p] # g[q]

\* C3: the is_solved flag of solve's result is true exactly when the returned
\* grid is complete and has no repeated value in a row, column or box.
C3_IsSolvedIffValidComplete ==
    pc = "done" => (result.is_solved <=> ValidComplete(result.solved_grid))

C3_Witness ==
    /\ pc = "done"
    /\ result.is_solved
    /\ result.iterations > 0
    /\ progress # {}

\* candidates still standing plus empty cells
Measure(b) ==
    Cardinality({x \in Pos \X Digits : x[2] \in b[x[1]].candidates})
        + Cardinality({p \in Pos : b[p].value = 0})

\* a natural number that every step of solve makes smaller: the iterations
\* left, then inside an iteration the measure of the board, then the
\* techniques left in the iteration
Rank ==
    CASE pc = "propagate" -> 3 + (MAX_ITERATIONS + 1) * 5000
      [] pc = "while" -> 2 + (MAX_ITERATIONS - iteration) * 5000
      [] pc = "for" -> 2 + (MAX_ITERATIONS - iteration) * 5000
                         + 6 * Measure(board) + (6 - ti)
      [] pc = "final" -> 1
      [] pc = "done" -> 0

\* solve is not stuck before it returns
CanStep ==
    \/ pc \in {"propagate", "while", "final"}
    \/ /\ pc = "for"
       /\ ti \in DOMAIN techniques(solver)
       /\ technique_func(techniques(solver)[ti], board) # {}

\* C4: solve terminates for every grid and every cap (it is never stuck before
\* it returns and every step lowers a natural-number rank), every apply_one_*
\* call that reports progress strictly reduces candidates plus empty cells,
\* and iterations never exceeds max_iterations.
C4_Terminates ==
    /\ [](/\ iteration <= MAX_ITERATIONS
          /\ result.iterations <= MAX_ITERATIONS
          /\ Rank >= 0
          /\ pc # "done" => CanStep)
    /\ [][/\ Rank' < Rank
          /\ (Len(calls') > Len(calls) /\ calls'[Len(calls')].changed)
                => Measure(board') < Measure(board)]_vars

C4_Witness ==
    /\ pc = "done"
    /\ MAX_ITERATIONS > 0
    /\ result.iterations = MAX_ITERATIONS
    /\ progress # {}

\* C5: solve starts a further iteration only when some technique made progress
\* in the iteration just finished.
C5_LoopsOnlyAfterProgress ==
    [][(pc = "while" /\ pc' = "for" /\ iteration >= 1)
          => \E i \in DOMAIN calls : calls[i].changed]_vars

\* C6: techniques_applied lists exactly the techniques that filled a cell or
\* removed a candidate during the solve.
C6_AppliedIffProgress ==
    pc = "done" => Range(result.techniques_applied) = progress

\* position of a technique in the order the claim gives
Kind(name) ==
    CASE name \in {"Naked Single", "Naked Singles"} -> 1
      [] name \in {"Hidden Single", "Hidden Singles"} -> 2
      [] name \in {"Hidden Pair", "Hidden Pairs"} -> 3
      [] name \in {"Naked Pair", "Naked Pairs"} -> 4
      [] name \in {"Naked Triple", "Naked Triples"} -> 5

CallsOf(k) == {i \in DOMAIN calls : Kind(calls[i].name) = k}

IterationFinished == pc = "while" /\ iteration >= 1

InClaimedOrder ==
    \A i \in DOMAIN calls : \A j \in DOMAIN calls :
        i < j => Kind(calls[i].name) <= Kind(calls[j].name)

\* the calls of technique k are successes closed by the one call that fails
RunToExhaustion(k) ==
    /\ CallsOf(k) # {}
    /\ \A i \in CallsOf(k) :
          calls[i].changed <=> (\E j \in CallsOf(k) : j > i)

\* C7 as stated: in every iteration naked single and hidden single run until
\* none remains, then hidden pair, naked pair and naked triple are each called
\* exactly once, in that order.
C7_PairsAndTriplesOnce ==
    IterationFinished =>
        /\ InClaimedOrder
        /\ RunToExhaustion(1)
        /\ RunToExhaustion(2)
        /\ \A k \in 3..5 : Cardinality(CallsOf(k)) = 1

\* C7 as amended: in every iteration of FrontendSudokuSolver.solve the five
\* techniques run in the order naked single, hidden single, hidden pair, naked
\* pair, naked triple, and each of the five is repeated until its call reports
\* no progress; in every iteration of StepByStepSolver.solve naked single,
\* hidden single, naked pair, hidden pair are called at most once each, in
\* that order, and the iteration ends at the first call that succeeds.
C7_EachToExhaustion ==
    IterationFinished =>
        /\ solver = "frontend" =>
              /\ InClaimedOrder
              /\ \A k \in 1..5 : RunToExhaustion(k)
        /\ solver = "stepbystep" =>
              /\ Len(calls) \in 1..4
              /\ \A i \in DOMAIN calls :
                    /\ Kind(calls[i].name) = <<1, 2, 4, 3>>[i]
                    /\ calls[i].changed => i = Len(calls)
              /\ ~calls[Len(calls)].changed => Len(calls) = 4

C7_Witness ==
    /\ IterationFinished
    /\ solver = "frontend"
    /\ \E i \in DOMAIN calls : calls[i].changed /\ Kind(calls[i].name) = 4

IsInitialConstraintsStep(st) ==
    st.step_type \in {"initial_constraints", "constraint_elimination"}
        /\ st.description = "starting puzzle"

IsFinalStateStep(st) == st.technique = "Final State"

\* C8: the trace starts with the "initial constraints" step for every input
\* grid, and ends with a "final state" step whenever is_solved is false.
C8_InitialAndFinalSteps ==
    pc = "done" =>
        /\ result.solving_steps # <<>>
        /\ IsInitialConstraintsStep(Head(result.solving_steps))
        /\ ~result.is_solved =>
              IsFinalStateStep(
                  result.solving_steps[Len(result.solving_steps)])

\* the while loop ended on `iteration < self.MAX_ITERATIONS` being false
CapReached ==
    /\ changed
    /\ iteration = MAX_ITERATIONS
    /\ (solver = "stepbystep" => ~is_solved(board))

\* C9: when solve returns because the cap was reached, the result is the
\* partial board with is_solved = false and the trace ends with an
\* explanatory step.
C9_CapReachedReported ==
    (pc = "done" /\ CapReached) =>
        /\ ~result.is_solved
        /\ result.solving_steps # <<>>
        /\ IsFinalStateStep(result.solving_steps[Len(result.solving_steps)])

\* C10: if an unsolved cell ran out of candidates during solve, the result
\* is a distinct contradiction outcome, not the ordinary solved or partial one.
C10_ContradictionReported ==
    (pc = "done" /\ saw_empty) =>
        result.message \notin {"Puzzle solved successfully", "Partial solution"}

-----------------------------------------------------------------------------
(* properties of the searches *)

\* the number of ways of filling the zero cells of g that make every row,
\* column and box hold 1..9 exactly once
RECURSIVE NumFillings(_)
RECURSIVE SumFillings(_, _, _)
SumFillings(g, h, ds) ==
    IF ds = {} THEN 0
    ELSE LET d == CHOOSE x \in ds : TRUE
         IN  NumFillings(grid_set(g, h, d)) + SumFillings(g, h, ds \ {d})

NumFillings(g) ==
    LET holes == {p \in Pos : grid_get(g, p) = 0}
    IN  IF holes = {}
        THEN (IF ValidComplete([p \in Pos |-> grid_get(g, p)]) THEN 1 ELSE 0)
        ELSE LET h == CHOOSE p \in holes : TRUE
             IN  SumFillings(g, h,
                    {d \in Digits : \A q \in peers(h[1], h[2]) :
                                        grid_get(g, q) # d})

\* two given cells of one row, column or box hold the same value
DuplicateGivens(g) ==
    \E p \in Pos : \E q \in Pos :
        /\ p # q /\ SameUnit(p, q)
        /\ grid_get(g, p) # 0 /\ grid_get(g, p) = grid_get(g, q)

\* C11: is_solvable is true exactly when the grid has at least one valid
\* filling, has_unique_solution exactly when it has one and only one, and
\* has_unique_solution implies is_solvable.
C11_OraclesExact ==
    /\ (pc = "oracle" /\ result.call = "is_solvable") =>
          (result.value <=> NumFillings(puzzle) >= 1)
    /\ (pc = "oracle" /\ result.call = "has_unique_solution") =>
          (result.value <=> NumFillings(puzzle) = 1)
    /\ pc = "oracle" =>
          (has_unique_solution(puzzle).ret => is_solvable(puzzle).ret)

\* C12: is_solvable returns false for every grid whose given values repeat a
\* value in a row, column or box.
C12_DuplicateGivensUnsolvable ==
    (pc = "oracle" /\ result.call = "is_solvable" /\ DuplicateGivens(puzzle))
        => ~result.value

\* C13: count_solutions(board, max_solutions=2) returns 0, 1 or 2.
C13_CountCapped ==
    (pc = "oracle" /\ result.call = "count_solutions") => result.value \in 0..2

-----------------------------------------------------------------------------
(* properties of consecutive solve calls *)

-----------------------------------------------------------------------------
(* properties of the technique functions *)

TechniqueNames ==
    {"Naked Single", "Hidden Single", "Naked Pair", "Hidden Pair",
     "Naked Triple"}

\* C16: every (value, cell) pair in the eliminations of the step a technique
\* call returns was a candidate of the cell right before the call and is not
\* one after it.
C16_EliminationsTrue ==
    [][(ret'.call \in TechniqueNames /\ ret'.changed) =>
          \A e \in ret'.step.eliminations :
              /\ e[1] \in board[e[2]].candidates
              /\ e[1] \notin board'[e[2]].candidates]_vars

\* a hidden-pair step that lists eliminations in two cells, some of a value
\* that only one of the two cells held
C16_Witness ==
    /\ ret.call = "Hidden Pair" /\ ret.changed /\ puzzle = CrossPairGrid
    /\ \E e \in ret.step.eliminations : \E f \in ret.step.eliminations :
          /\ e[2] # f[2]
          /\ <<e[1], f[2]>> \notin ret.step.eliminations

\* the unsolved cells of a board with exactly one candidate
NakedSingles(b) ==
    {p \in Pos : b[p].value = 0 /\ Cardinality(b[p].candidates) = 1}

\* C17: a naked-single call fills the first cell, in row-major order, whose
\* refreshed candidate set has one value, with that value and nothing else,
\* clears the cell's candidates, removes the value from the cell's peers and
\* names the placement in the step; without such a cell it returns
\* (False, None) and fills nothing.
C17_NakedSingleFillsFirst ==
    [][ret'.call = "Naked Single" =>
          LET b == update_candidates(board)
              singles == NakedSingles(b)
          IN  IF singles = {}
              THEN /\ ~ret'.changed /\ ret'.step = None
                   /\ \A q \in Pos : board'[q].value = board[q].value
              ELSE \E p \in singles :
                      /\ \A o \in singles : RowMajor(p) <= RowMajor(o)
                      /\ ret'.changed
                      /\ {board'[p].value} = b[p].candidates
                      /\ board'[p].candidates = {}
                      /\ \A q \in Pos \ {p} : board'[q].value = board[q].value
                      /\ \A q \in Pos \ {p} :
                            SameUnit(p, q) =>
                                board'[p].value \notin board'[q].candidates
                      /\ ret'.step.value = board'[p].value
                      /\ ret'.step.focus_cells = <<p>>]_vars

\* a naked single was placed while a later cell also had a single candidate
C17_Witness ==
    /\ ret.call = "Naked Single" /\ ret.changed
    /\ \E q \in Pos :
          /\ board[q].value = 0 /\ Cardinality(board[q].candidates) = 1
          /\ RowMajor(q) > RowMajor(ret.step.focus_cells[1])

\* the unsolved cells of unit k that hold n as a candidate
Holders(b, k, n) ==
    {i \in Idx : b[AllUnits[k][i]].value = 0
                  /\ n \in b[AllUnits[k][i]].candidates}

\* the (unit, value) combinations with exactly one holder; units are numbered
\* rows 1..9, columns 10..18, boxes 19..27
HiddenSingleHits(b) ==
    {h \in (1..27) \X Digits : Cardinality(Holders(b, h[1], h[2])) = 1}

\* C18: a successful hidden-single call places one value: that of the first
\* (unit, value) combination, units in the order rows, columns, boxes and
\* values ascending within a unit, whose value has exactly one holder in the
\* refreshed unit; the holder becomes solved with no candidates, no other
\* cell is filled, and the step names the value and the cell.
C18_HiddenSinglePlacesFirst ==
    [][(ret'.call = "Hidden Single" /\ ret'.changed) =>
          LET b == update_candidates(board)
              hits == HiddenSingleHits(b)
          IN  \E h \in hits :
                  /\ \A g \in hits :
                        h[1] < g[1] \/ (h[1] = g[1] /\ h[2] <= g[2])
                  /\ \E i \in Holders(b, h[1], h[2]) :
                        LET p == AllUnits[h[1]][i]
                        IN  /\ board[p].value = 0
                            /\ board'[p].value = h[2]
                            /\ board'[p].candidates = {}
                            /\ \A q \in Pos \ {p} :
                                  board'[q].value = board[q].value
                            /\ ret'.step.value = h[2]
                            /\ ret'.step.focus_cells = <<p>>]_vars

\* a value placed as the hidden single of a column: no row of the grid had one
C18_Witness ==
    /\ puzzle = ColumnSingleGrid
    /\ ret.call = "Hidden Single" /\ ret.changed
    /\ ret.step.focus_cells = << <<0, 0>> >> /\ ret.step.value = 1
    /\ board[<<0, 0>>].value = 1

\* the unsolved cells of the unit whose candidate set is the two-value set key
PairHolders(b, unit, key) ==
    {i \in Idx : b[unit[i]].value = 0 /\ b[unit[i]].candidates = key}

TwoValueSets == {key \in SUBSET Digits : Cardinality(key) = 2}

\* the call returned False exactly when the technique removed no candidate
\* from the refreshed board
FalseIffNothingRemoved(b, after, r) == r.changed <=> after # update_candidates(b)

HiddenPairs(b, k) ==
    {h \in Digits \X Digits :
        /\ h[1] < h[2]
        /\ Cardinality(Holders(b, k, h[1])) = 2
        /\ Holders(b, k, h[1]) = Holders(b, k, h[2])}

\* some third value is held by exactly the two cells of the hidden pair h
ThirdValueInSameCells(b, k, h) ==
    \E v \in Digits \ {h[1], h[2]} : Holders(b, k, v) = Holders(b, k, h[1])

TriplesOf(b, k) ==
    {t \in SUBSET Idx :
        /\ Cardinality(t) = 3
        /\ \A i \in t : /\ b[AllUnits[k][i]].value = 0
                         /\ Cardinality(b[AllUnits[k][i]].candidates) \in 1..3
        /\ Cardinality(UNION {b[AllUnits[k][i]].candidates : i \in t}) = 3}

C22_PropagatedAfterPlacement ==
    [][(ret'.call \in {"Naked Single", "Hidden Single"} /\ ret'.changed) =>
          LET p == ret'.step.focus_cells[1]
              v == ret'.step.value
          IN  /\ board'[p].value = v
              /\ Cardinality(peers(p[1], p[2])) = 20
              /\ \A q \in peers(p[1], p[2]) : v \notin board'[q].candidates
              /\ update_candidates(board') = board'
              /\ constraint_changes(board', Pos) = {}]_vars

\* a hidden single was placed and the value was removed from a cell of the
\* box that is in another row and another column
C22_Witness ==
    /\ ret.call = "Hidden Single" /\ ret.changed
    /\ \E e \in ret.step.eliminations :
          LET p == ret.step.focus_cells[1]
          IN  e[2][1] # p[1] /\ e[2][2] # p[2]

\* C23: on every board, a second update_candidates right after a first one
\* leaves every candidate set as the first left it and returns no change.
C23_SecondUpdateChangesNothing ==
    /\ update_candidates(update_candidates(board)) = update_candidates(board)
    /\ constraint_changes(update_candidates(board), Pos) = {}

\* an update_candidates call that found nothing to change on a board whose
\* candidates an earlier call had cut down
C23_Witness ==
    /\ ret.call = "update_candidates" /\ ~ret.changed
    /\ refreshed
    /\ \E p \in Pos : board[p].value = 0 /\ Cardinality(board[p].candidates) < 9

-----------------------------------------------------------------------------
(* properties of solve on the scenario grids *)

SingleNames ==
    {"Naked Single", "Naked Singles", "Hidden Single", "Hidden Singles"}

\* the technique steps of a trace
TechniqueSteps(steps) ==
    {i \in DOMAIN steps : steps[i].step_type = "technique"}

\* C24: for the classic puzzle of Scenario A, solve with the default cap
\* returns is_solved = true and a complete valid grid that keeps every given,
\* and every technique step of the trace is a naked or a hidden single.
C24_ScenarioASolvedBySingles ==
    (pc = "done" /\ puzzle = ScenarioA
        /\ MAX_ITERATIONS = SUDOKU_MAX_ITERATIONS) =>
        /\ result.is_solved
        /\ ValidComplete(result.solved_grid)
        /\ \A p \in Pos :
              ScenarioA[p[1] + 1][p[2] + 1] # 0 =>
                  result.solved_grid[p] = ScenarioA[p[1] + 1][p[2] + 1]
        /\ \A i \in TechniqueSteps(result.solving_steps) :
              result.solving_steps[i].technique \in SingleNames

\* Scenario A solved by the step-by-step solver, one technique step for each
\* of the 51 empty cells
C24_Witness ==
    /\ pc = "done" /\ puzzle = ScenarioA /\ solver = "stepbystep"
    /\ MAX_ITERATIONS = SUDOKU_MAX_ITERATIONS
    /\ result.is_solved
    /\ Cardinality(TechniqueSteps(result.solving_steps)) = 51

\* C25: for the all-zero grid is_solvable is true, has_unique_solution is
\* false, and solve returns is_solved = false, an all-zero solved_grid, a
\* trace without technique step and an empty techniques_applied.
C25_EmptyGridNoProgress ==
    (pc = "done" /\ puzzle = EmptyGrid) =>
        /\ is_solvable(puzzle).ret
        /\ ~has_unique_solution(puzzle).ret
        /\ ~result.is_solved
        /\ \A p \in Pos : result.solved_grid[p] = 0
        /\ TechniqueSteps(result.solving_steps) = {}
        /\ result.techniques_applied = <<>>

-----------------------------------------------------------------------------
(* properties of solve on puzzles with one solution *)

\* the solution of Scenario A
ScenarioASolution ==
    << <<5,3,4,6,7,8,9,1,2>>,
       <<6,7,2,1,9,5,3,4,8>>,
       <<1,9,8,3,4,2,5,6,7>>,
       <<8,5,9,7,6,1,4,2,3>>,
       <<4,2,6,8,5,3,7,9,1>>,
       <<7,1,3,9,2,4,8,5,6>>,
       <<9,6,1,5,3,7,2,8,4>>,
       <<2,8,7,4,1,9,6,3,5>>,
       <<3,4,5,2,8,6,1,7,9>> >>

\* the input puzzles that have exactly one solution
UniquePuzzles ==
    HoleGrids \cup {ScenarioA, HiddenPairPuzzle, NakedPairPuzzle, TriplePuzzle}

\* the one solution of such a puzzle
Solution(g) == IF g = ScenarioA THEN ScenarioASolution ELSE SolutionGrid

\* g is a complete valid grid that keeps every given of the puzzle
SolutionOf(g, puz) ==
    /\ ValidComplete([p \in Pos |-> grid_get(g, p)])
    /\ \A p \in Pos : grid_get(puz, p) # 0 => grid_get(g, p) = grid_get(puz, p)

\* C26: for a puzzle with exactly one solution S, in every board state
\* reached during solve each filled cell holds S's value for that cell and
\* S's value is still a candidate of every unsolved cell.
C26_NeverWrong ==
    puzzle \in UniquePuzzles =>
        LET S == Solution(puzzle)
        IN  /\ SolutionOf(S, puzzle)
            /\ \A p \in Pos :
                  IF board[p].value # 0
                  THEN board[p].value = grid_get(S, p)
                  ELSE grid_get(S, p) \in board[p].candidates

\* the step-by-step solver is through with a puzzle on which a naked pair
\* made eliminations, and the search finds one solution for each of the
\* three puzzles
C26_Witness ==
    /\ pc = "done" /\ puzzle = NakedPairPuzzle /\ solver = "stepbystep"
    /\ \E i \in TechniqueSteps(result.solving_steps) :
          result.solving_steps[i].technique = "Naked Pair"
    /\ \E p \in Pos : board[p].value = 0
    /\ \A g \in {HiddenPairPuzzle, NakedPairPuzzle, TriplePuzzle} :
          has_unique_solution(g).ret

-----------------------------------------------------------------------------
(* properties of boards reached by technique calls *)

\* two solved cells of one row, column or box hold the same value
DuplicateSolved(b) ==
    \E p \in Pos : \E q \in Pos :
        /\ p # q /\ SameUnit(p, q)
        /\ b[p].value # 0 /\ b[p].value = b[q].value

\* C27: if the input grid has no repeated non-zero value in a row, column or
\* box, no board reached by technique calls has two solved cells of one row,
\* column or box with the same value.
C27_NoDuplicatePlaced ==
    ~DuplicateGivens(puzzle) => ~DuplicateSolved(board)

\* a naked single has just placed 9 in one of two cells of a row that both
\* had 9 as their only candidate, on a grid without repeated givens
C27_Witness ==
    /\ ret.call = "Naked Single" /\ ret.changed
    /\ puzzle = RivalSinglesGrid
    /\ ~DuplicateGivens(puzzle)
    /\ board[<<0, 7>>].value = 9
    /\ board[<<0, 8>>].value = 0 /\ board[<<0, 8>>].candidates = {}

\* C28: whenever a technique function returns (False, None), no cell value
\* and no candidate set differs from what it was before the call.
C28_FalseLeavesBoard ==
    [][(ret'.call \in TechniqueNames /\ ~ret'.changed) => board' = board]_vars

-----------------------------------------------------------------------------
(* properties of the pattern cells reported by a step *)

PairNames == {"Naked Pair", "Hidden Pair"}

\* an elimination of the step that a pair with the cell p accounts for: for
\* a naked pair a value of p removed from another cell of one of p's units,
\* for a hidden pair a value removed from p or from a listed cell next to it
AccountsFor(call, step, b, p) ==
    \E e \in step.eliminations :
        IF call = "Naked Pair"
        THEN e[2] # p /\ SameUnit(e[2], p) /\ e[1] \in b[p].candidates
        ELSE \/ e[2] = p
             \/ \E i \in DOMAIN step.focus_cells :
                    /\ step.focus_cells[i] = e[2]
                    /\ SameUnit(e[2], p)

\* C29: in a Naked Pair or Hidden Pair step every cell of focus_cells belongs
\* to a pair that caused an elimination of the step, and no cell is listed
\* more than once.
C29_FocusCellsOfProductivePairs ==
    [][(ret'.call \in PairNames /\ ret'.changed) =>
          LET f == ret'.step.focus_cells
          IN  /\ \A i \in DOMAIN f : \A j \in DOMAIN f : i # j => f[i] # f[j]
              /\ \A i \in DOMAIN f :
                    AccountsFor(ret'.call, ret'.step, board', f[i])]_vars

\* C30: every cell in focus_cells of a Naked Pair or Naked Triple step has
\* after the call the candidate set it had before the call.
C30_PatternCellsKept ==
    [][(ret'.call \in {"Naked Pair", "Naked Triple"} /\ ret'.changed) =>
          \A i \in DOMAIN ret'.step.focus_cells :
              LET p == ret'.step.focus_cells[i]
              IN  board'[p].candidates = board[p].candidates]_vars

====
